---- MODULE Spec2Model ----
(***************************************************************************)
(* The canvas editor of components/ImageEditor.tsx: the history stack, the  *)
(* draw / pan gestures, the viewport transform and the DXF scanline         *)
(* vectorizer of the export pipeline.                                       *)
(*                                                                          *)
(* The specifications share the variables:                                  *)
(*   Spec        the editing machine: image loads (one at a time), draw     *)
(*               gestures, frame callbacks, tool changes, undo, reset;      *)
(*   SpecView    the viewport machine: wheel zoom, zoom buttons, pan;       *)
(*   SpecDxf     generateDxf applied to every raster of a bounded set;      *)
(*   SpecZoom    one zoom step from every view of a bounded set;            *)
(*   SpecGesture draw and pan gestures with every tool, zoom, undo, reset;  *)
(*   SpecName    downloads for every metadata string of a bounded set;      *)
(*   SpecExport  downloads interleaved with loading, drawing and undo;      *)
(*   SpecChains  draw gestures with tool, width and zoom changes in them;   *)
(*   SpecPan     pan gestures with wheel zooms in them;                     *)
(*   SpecLoads   source changes whose loads complete in any order.          *)
(***************************************************************************)
EXTENDS Integers, Sequences, FiniteSets, TLC

(***************************************************************************)
(* Bounds of the model.                                                     *)
(***************************************************************************)
\* widest and tallest raster handed to generateDxf
MaxDxfW == 4
MaxDxfH == 2
\* most pixels of such a raster
MaxDxfArea == 8

(***************************************************************************)
(* ImageData: width, height and the flat RGBA byte array `data`, where the  *)
(* channel c of pixel (x, y) is data[(y * width + x) * 4 + c] (0-based; the *)
(* TLA+ sequence is 1-based, hence At).                                     *)
(***************************************************************************)
At(data, index) == data[index + 1]

RECURSIVE Flatten(_)
Flatten(pixels) ==
    IF pixels = <<>> THEN <<>> ELSE Head(pixels) \o Flatten(Tail(pixels))

\* an ImageData whose pixels, in row-major order, are the RGBA tuples `pixels`
MakeImage(w, h, pixels) == [width |-> w, height |-> h, data |-> Flatten(pixels)]

PixelOf(img, x, y) ==
    LET index == (y * img.width + x) * 4
    IN  <<At(img.data, index), At(img.data, index + 1),
          At(img.data, index + 2), At(img.data, index + 3)>>

Black == <<0, 0, 0, 255>>
White == <<255, 255, 255, 255>>
Clear == <<0, 0, 0, 0>>

NoImage == [width |-> 0, height |-> 0, data |-> <<>>]

(***************************************************************************)
(* generateDxf.  The DXF text is the sequence of its "\n"-terminated lines; *)
(* ToString renders a number the way the template literal does.             *)
(***************************************************************************)
threshold == 128

isBlackStrict(data, index) ==
    At(data, index) <= threshold /\ At(data, index + 3) >= threshold

isBlack(data, index) ==
    At(data, index) < threshold /\ At(data, index + 3) > threshold

DxfHeader == <<"0", "SECTION", "2", "ENTITIES">>

DxfFooter == <<"0", "ENDSEC", "0", "EOF">>

LineEntityNoLayer(startX, dxfY, endX) ==
    <<"0", "LINE", "10", ToString(startX), "20", ToString(dxfY),
      "11", ToString(endX), "21", ToString(dxfY)>>

LineEntity(startX, dxfY, endX) ==
    <<"0", "LINE", "8", "0", "10", ToString(startX), "20", ToString(dxfY),
      "11", ToString(endX), "21", ToString(dxfY)>>

\* the emission guarded by `if (startX <= endX)`
EmitLine(dxfContent, startX, endX, height, y) ==
    IF startX <= endX
    THEN dxfContent \o LineEntity(startX, height - 1 - y, endX)
    ELSE dxfContent

\* one iteration of the inner loop: the scan state is [inSegment, startX, dxfContent]
ScanPixelEndAtX(st, data, width, height, x, y) ==
    LET black == isBlack(data, (y * width + x) * 4)
    IN  IF black /\ ~st.inSegment
        THEN [st EXCEPT !.inSegment = TRUE, !.startX = x]
        ELSE IF ~black /\ st.inSegment
        THEN [st EXCEPT !.inSegment = FALSE,
                        !.dxfContent = EmitLine(st.dxfContent, st.startX, x, height, y)]
        ELSE st

ScanPixel(st, data, width, height, x, y) ==
    LET black == isBlack(data, (y * width + x) * 4)
    IN  IF black /\ ~st.inSegment
        THEN [st EXCEPT !.inSegment = TRUE, !.startX = x]
        ELSE IF ~black /\ st.inSegment
        THEN [st EXCEPT !.inSegment = FALSE,
                        !.dxfContent = EmitLine(st.dxfContent, st.startX, x - 1, height, y)]
        ELSE st

\* the inner loop, for (let x = 0; x < width; x++)
RECURSIVE ScanRow(_, _, _, _, _, _)
ScanRow(st, data, width, height, x, y) ==
    IF x < width
    THEN ScanRow(ScanPixel(st, data, width, height, x, y), data, width, height, x + 1, y)
    ELSE st

\* after the inner loop: a segment that goes to the end of the line
RowEndNoClose(st, width, height, y) == st.dxfContent

RowEndPastEdge(st, width, height, y) ==
    IF st.inSegment
    THEN EmitLine(st.dxfContent, st.startX, width, height, y)
    ELSE st.dxfContent

RowEnd(st, width, height, y) ==
    IF st.inSegment
    THEN EmitLine(st.dxfContent, st.startX, width - 1, height, y)
    ELSE st.dxfContent

\* the outer loop, for (let y = 0; y < height; y++), each row starting with
\* inSegment = false and startX = 0
RECURSIVE ScanRows(_, _, _, _, _)
ScanRows(dxfContent, data, width, height, y) ==
    IF y < height
    THEN LET st0 == [inSegment |-> FALSE, startX |-> 0, dxfContent |-> dxfContent]
             st  == ScanRow(st0, data, width, height, 0, y)
         IN  ScanRows(RowEnd(st, width, height, y), data, width, height, y + 1)
    ELSE dxfContent

generateDxf(imgData) ==
    ScanRows(DxfHeader, imgData.data, imgData.width, imgData.height, 0) \o DxfFooter

(***************************************************************************)
(* The canvas: its backing store has the shape of an ImageData.  Pixels are *)
(* held as getImageData reads them back.                                    *)
(***************************************************************************)
\* a canvas after its width or height is set: transparent black
BlankCanvas(w, h) == [width |-> w, height |-> h, data |-> [i \in 1..(4 * w * h) |-> 0]]

\* source-over compositing of one pixel
Over(s, d) ==
    IF s[4] = 255 THEN s
    ELSE IF s[4] = 0 THEN d
    ELSE LET a == s[4] + (d[4] * (255 - s[4])) \div 255
             mix(c) == (s[c] * s[4] * 255 + d[c] * d[4] * (255 - s[4])) \div (a * 255)
         IN  <<mix(1), mix(2), mix(3), a>>

\* the canvas with pixel (x, y) replaced by f[x, y]
MapPixels(cv, f) ==
    [cv EXCEPT !.data = [i \in DOMAIN cv.data |->
        LET pix == (i - 1) \div 4
        IN  f[pix % cv.width, pix \div cv.width][((i - 1) % 4) + 1]]]

\* ctx.drawImage(image, 0, 0): composited over what the canvas holds
drawImage(cv, image) ==
    MapPixels(cv, [x \in 0..(cv.width - 1), y \in 0..(cv.height - 1) |->
        IF x < image.width /\ y < image.height
        THEN Over(PixelOf(image, x, y), PixelOf(cv, x, y)) ELSE PixelOf(cv, x, y)])

\* ctx.putImageData(image, 0, 0): pixels copied, no compositing, no transform
putImageData(cv, image) ==
    MapPixels(cv, [x \in 0..(cv.width - 1), y \in 0..(cv.height - 1) |->
        IF x < image.width /\ y < image.height
        THEN PixelOf(image, x, y) ELSE PixelOf(cv, x, y)])

\* ctx.clearRect(0, 0, canvas.width, canvas.height)
clearRect(cv) == BlankCanvas(cv.width, cv.height)

(***************************************************************************)
(* Viewport arithmetic.  scale is held in units of 1 / ScaleUnit, offsets   *)
(* and pointer positions in device pixels, model-space coordinates in       *)
(* units of 1 / ScaleUnit of a pixel.                                       *)
(***************************************************************************)
ScaleUnit == 100

IdentityView == [scale |-> ScaleUnit, offset |-> [x |-> 0, y |-> 0]]

getTransformedPoint(vt, x, y) ==
    [x |-> ((x - vt.offset.x) * ScaleUnit * ScaleUnit) \div vt.scale,
     y |-> ((y - vt.offset.y) * ScaleUnit * ScaleUnit) \div vt.scale]

\* translate(offset) then scale(scale) applied to a model-space point, at the
\* nearest pixel
ToCanvas(vt, m) ==
    LET half == (ScaleUnit * ScaleUnit) \div 2
    IN  [x |-> vt.offset.x + (vt.scale * m.x + half) \div (ScaleUnit * ScaleUnit),
         y |-> vt.offset.y + (vt.scale * m.y + half) \div (ScaleUnit * ScaleUnit)]

\* is pixel (px, py) within lw / 2 of the segment a -- b (round caps)
OnStroke(px, py, a, b, lw) ==
    LET dx   == b.x - a.x
        dy   == b.y - a.y
        len2 == dx * dx + dy * dy
        t    == (px - a.x) * dx + (py - a.y) * dy
        d2a  == (px - a.x) * (px - a.x) + (py - a.y) * (py - a.y)
        d2b  == (px - b.x) * (px - b.x) + (py - b.y) * (py - b.y)
        crs  == (px - a.x) * dy - (py - a.y) * dx
    IN  IF len2 = 0 \/ t <= 0 THEN 4 * d2a <= lw * lw
        ELSE IF t >= len2 THEN 4 * d2b <= lw * lw
        ELSE 4 * crs * crs <= lw * lw * len2

\* the body of renderCanvas between save() and restore(): one segment from
\* lastMousePosRef to mousePosRef under the closure's tool, width and transform;
\* lineWidth / scale under scale(scale) is lineWidth device pixels wide
strokeSegment(cv, cl, last, mouse) ==
    LET a == ToCanvas(cl.viewTransform, last)
        b == ToCanvas(cl.viewTransform, mouse)
    IN  MapPixels(cv, [x \in 0..(cv.width - 1), y \in 0..(cv.height - 1) |->
            IF OnStroke(x, y, a, b, cl.lineWidth)
            THEN (IF cl.tool = "eraser" THEN Clear ELSE Black)
            ELSE PixelOf(cv, x, y)])

(***************************************************************************)
(* Bounds of the editing machine.                                           *)
(***************************************************************************)
\* source images are MaxSrcW wide and 1 high; the canvas element starts one
\* pixel higher
MaxSrcW == 2
\* ImageData objects allocated in one behaviour (loads and snapshots)
MaxIds == 3
\* frame callbacks pending at once
MaxFrames == 1
\* largest |offset| a pan may reach
MaxOffset == 2
\* longest run of consecutive undo calls that is tracked
MaxUndoRun == 2

Tools == {"brush", "eraser", "pan"}
DrawTools == {"brush", "eraser"}

\* the range input's initial value and its minimum
InitialLineWidth == 5
MinLineWidth == 1
LineWidths == {MinLineWidth, InitialLineWidth}

\* an opaque white image, and one whose first pixel is transparent
WhiteImage(w) == MakeImage(w, 1, [i \in 1..w |-> White])
PartImage(w) == MakeImage(w, 1, [i \in 1..w |-> IF i = 1 THEN Clear ELSE White])

\* what the source URLs decode to
SourceImages == {PartImage(MaxSrcW), WhiteImage(MaxSrcW)}

\* pointer positions (offsetX, offsetY) of mouse and wheel events
Pointers == { [x |-> 0, y |-> 0], [x |-> MaxSrcW - 1, y |-> 0] }

\* the canvas element before any image has loaded
DefaultCanvas == BlankCanvas(MaxSrcW, 2)

(***************************************************************************)
(* State.                                                                   *)
(***************************************************************************)
VARIABLES
    src,              \* the src prop: the image its URL decodes to
    loads,            \* Image objects whose onload has not fired yet
    canvas,           \* canvasRef.current: width, height and backing store
    history,          \* ImageData[]; each entry [id, image], id = object identity
    historyIndex,
    nextId,           \* number of ImageData objects allocated so far
    tool,
    lineWidth,
    isDrawing,
    isPanning,
    panStartPoint,
    mousePosRef,      \* <<>> is null, <<p>> a model-space point
    lastMousePosRef,
    viewTransform,
    frames,           \* callbacks passed to requestAnimationFrame, each the
                      \* renderCanvas closure [tool, lineWidth, viewTransform]
    imageData,        \* handleDownload: the ImageData read back from tempCanvas
    dxfString,        \* handleDownload: the text generateDxf returned, <<>> before
    options,          \* the options prop: [material, designType], each a string
                      \* held as the sequence of its characters
    isDownloadMenuOpen,
    link,             \* <<>>, or <<a>> for the anchor a the last download clicked:
                      \* [download, type, image or text]
    discarded,        \* history variable: ids of entries a snapshot has removed
    undoRun,          \* history variable: the current run of consecutive undos
    zoomEvent,        \* history variable: the last zoom step's focal point and
                      \* the transform it started from, <<>> when untracked
    panPointer        \* history variable: <<p>> for the pointer position p of
                      \* the last pointer-down or pointer-move of the active
                      \* pan gesture, <<>> when untracked

editorVars == <<src, loads, canvas, history, historyIndex, nextId, tool, lineWidth,
                isDrawing, isPanning, panStartPoint, mousePosRef, lastMousePosRef,
                viewTransform, frames>>
dxfVars == <<imageData, dxfString>>
exportVars == <<options, isDownloadMenuOpen, link>>
ghostVars == <<discarded, undoRun, zoomEvent, panPointer>>
vars == <<editorVars, dxfVars, exportVars, ghostVars>>

NoRun == [from |-> -1, k |-> 0, hist |-> <<>>]

\* the component with its first image still loading, no gesture active and
\* the view at vt: the effect of [src] has created the context; context and
\* canvasRef.current are non-null from here on
EditorAt(vt) ==
    /\ src \in SourceImages
    /\ loads = {src}
    /\ canvas = DefaultCanvas
    /\ history = <<>>
    /\ historyIndex = -1
    /\ nextId = 0
    /\ tool = "brush"
    /\ lineWidth = InitialLineWidth
    /\ isDrawing = FALSE
    /\ isPanning = FALSE
    /\ panStartPoint = [x |-> 0, y |-> 0]
    /\ mousePosRef = <<>>
    /\ lastMousePosRef = <<>>
    /\ viewTransform = vt
    /\ frames = <<>>
    /\ discarded = {}
    /\ undoRun = NoRun
    /\ zoomEvent = <<>>
    /\ panPointer = <<>>

\* the component after mount
EditorInit == EditorAt(IdentityView)

\* the metadata App starts with: designType '2D Flat', material 'Wood'
DefaultOptions ==
    [material |-> <<"W", "o", "o", "d">>,
     designType |-> <<"2", "D", " ", "F", "l", "a", "t">>]

\* nothing downloaded yet, the download menu closed
NoDownload(opts) ==
    /\ options = opts
    /\ isDownloadMenuOpen = FALSE
    /\ link = <<>>

Init ==
    /\ EditorInit
    /\ imageData = NoImage
    /\ dxfString = <<>>
    /\ NoDownload(DefaultOptions)

(***************************************************************************)
(* Effects that run after a handler's state updates are rendered.           *)
(***************************************************************************)
\* history[historyIndex], 0-based
Entry(hist, idx) == hist[idx + 1]

\* is history[historyIndex] defined
HasEntry(hist, idx) == (idx + 1) \in DOMAIN hist

redrawCanvasNoPut(cv, hist, idx) == clearRect(cv)

\* redrawCanvas
redrawCanvas(cv, hist, idx) ==
    IF Len(hist) > 0 /\ HasEntry(hist, idx)
    THEN putImageData(clearRect(cv), Entry(hist, idx).image)
    ELSE clearRect(cv)

\* useEffect([viewTransform, redrawCanvas]): runs when viewTransform, history or
\* historyIndex changed; `cv` is the canvas as the handler left it
RedrawEffect(changed, cv) ==
    canvas' = IF changed THEN redrawCanvas(cv, history', historyIndex') ELSE cv

\* useEffect([isDrawing, renderCanvas, tool]): runs when isDrawing, tool,
\* lineWidth or viewTransform changed, and then requests a frame for the
\* renderCanvas of this render
FrameEffect(changed, pending) ==
    LET request == changed /\ isDrawing' /\ tool' # "pan"
    IN  frames' = IF request
                  THEN Append(pending, [tool |-> tool', lineWidth |-> lineWidth',
                                        viewTransform |-> viewTransform'])
                  ELSE pending

\* at most n callbacks are pending after the step
FramesWithin(n) == Len(frames') <= n

(***************************************************************************)
(* History stack.                                                           *)
(***************************************************************************)
SliceKeepAll(hist, idx) == hist

\* history.slice(0, historyIndex + 1)
Slice(hist, idx) == SubSeq(hist, 1, idx + 1)

\* saveState: the new history and index
saveStateHistory(hist, idx, cv, id) == Append(Slice(hist, idx), [id |-> id, image |-> cv])

saveStateIndexPastEnd(newHistory) == Len(newHistory)

\* setHistoryIndex(newHistory.length - 1)
saveStateIndex(newHistory) == Len(newHistory) - 1

IdsOf(hist) == { hist[k].id : k \in DOMAIN hist }

(***************************************************************************)
(* Zoom.  zoomFactor 1.1 and 1.2 are held in tenths, the quotient           *)
(* clampedScale / viewTransform.scale in units of 1 / RatioUnit.            *)
(***************************************************************************)
FactorUnit == 10
RatioUnit == 1000000
WheelZoomFactor == 11
ButtonZoomFactor == 12

Min(a, b) == IF a < b THEN a ELSE b
Max(a, b) == IF a > b THEN a ELSE b

clampScaleNoFloor(newScale) == Min(newScale, 10 * ScaleUnit)

\* Math.max(0.1, Math.min(newScale, 10))
clampScale(newScale) == Max(ScaleUnit \div 10, Min(newScale, 10 * ScaleUnit))

\* scale * zoomFactor or scale / zoomFactor
zoomedScale(scale, factor, zoomIn) ==
    IF zoomIn THEN (scale * factor) \div FactorUnit ELSE (scale * FactorUnit) \div factor

\* focal - (focal - offset) * (clampedScale / scale), one axis
zoomedOffset(focal, offset, clampedScale, scale) ==
    focal - ((focal - offset) * ((clampedScale * RatioUnit) \div scale)) \div RatioUnit

zoomedViewOffsetUnclamped(vt, focal, factor, zoomIn) ==
    LET newScale == zoomedScale(vt.scale, factor, zoomIn)
    IN  [scale  |-> clampScale(newScale),
         offset |-> [x |-> zoomedOffset(focal.x, vt.offset.x, newScale, vt.scale),
                     y |-> zoomedOffset(focal.y, vt.offset.y, newScale, vt.scale)]]

\* the transform both zoom handlers set
zoomedView(vt, focal, factor, zoomIn) ==
    LET clampedScale == clampScale(zoomedScale(vt.scale, factor, zoomIn))
    IN  [scale  |-> clampedScale,
         offset |-> [x |-> zoomedOffset(focal.x, vt.offset.x, clampedScale, vt.scale),
                     y |-> zoomedOffset(focal.y, vt.offset.y, clampedScale, vt.scale)]]

OffsetInRange(vt) ==
    /\ vt.offset.x \in -MaxOffset..MaxOffset
    /\ vt.offset.y \in -MaxOffset..MaxOffset

\* setViewTransform(vt) of a new object, and the effects that follow
setViewTransform(vt) ==
    /\ viewTransform' = vt
    /\ UNCHANGED <<src, loads, history, historyIndex, nextId, tool, lineWidth,
                   isDrawing, isPanning, panStartPoint, mousePosRef, lastMousePosRef>>
    /\ RedrawEffect(TRUE, canvas)
    /\ FrameEffect(TRUE, frames)

\* deltaY < 0 zooms in
handleWheel(p, deltaYNegative) ==
    setViewTransform(zoomedView(viewTransform, p, WheelZoomFactor, deltaYNegative))

\* `center` is the centre of the canvas's parent element
handleZoomChange(direction, center) ==
    IF direction = "reset"
    THEN setViewTransform(IdentityView)
    ELSE setViewTransform(zoomedView(viewTransform, center, ButtonZoomFactor,
                                     direction = "in"))

(***************************************************************************)
(* Handlers.  Each action is one handler together with the render and the   *)
(* effects that follow it.                                                  *)
(***************************************************************************)
\* the src prop changes: useEffect([src]) creates an Image and starts loading
SrcChange(img) ==
    /\ img # src
    /\ src' = img
    /\ loads' = loads \cup {img}
    /\ UNCHANGED <<canvas, history, historyIndex, nextId, tool, lineWidth, isDrawing,
                   isPanning, panStartPoint, mousePosRef, lastMousePosRef,
                   viewTransform, frames>>

\* the canvas after image.onload has sized it and drawn the image
LoadedCanvas(cv, image) ==
    drawImage(IF cv.width # image.width \/ cv.height # image.height
              THEN BlankCanvas(image.width, image.height)
              ELSE cv,
              image)

\* the history image.onload sets
LoadedHistory(hist, cv, loaded, id) == <<[id |-> id, image |-> loaded]>>

\* image.onload
ImageOnload(img) ==
    /\ img \in loads
    /\ nextId < MaxIds
    /\ loads' = loads \ {img}
    /\ nextId' = nextId + 1
    /\ UNCHANGED <<src, tool, lineWidth, isDrawing, isPanning, panStartPoint,
                   mousePosRef, lastMousePosRef>>
    /\ LET loaded == LoadedCanvas(canvas, img)
       IN  /\ history' = LoadedHistory(history, canvas, loaded, nextId)
           /\ historyIndex' = 0
           /\ viewTransform' = IdentityView
           /\ RedrawEffect(TRUE, loaded)
    /\ FrameEffect(TRUE, frames)

handleMouseDown(p) ==
    IF tool = "pan"
    THEN /\ isPanning' = TRUE
         /\ panStartPoint' = [x |-> p.x - viewTransform.offset.x,
                              y |-> p.y - viewTransform.offset.y]
         /\ UNCHANGED <<src, loads, canvas, history, historyIndex, nextId, tool,
                        lineWidth, isDrawing, mousePosRef, lastMousePosRef,
                        viewTransform, frames>>
    ELSE /\ mousePosRef' = <<getTransformedPoint(viewTransform, p.x, p.y)>>
         /\ lastMousePosRef' = <<getTransformedPoint(viewTransform, p.x, p.y)>>
         /\ isDrawing' = TRUE
         /\ UNCHANGED <<src, loads, canvas, history, historyIndex, nextId, tool,
                        lineWidth, isPanning, panStartPoint, viewTransform>>
         /\ FrameEffect(~isDrawing, frames)

handleMouseUpAlwaysSaves ==
    /\ nextId < MaxIds
    /\ isDrawing' = FALSE
    /\ mousePosRef' = <<>>
    /\ lastMousePosRef' = <<>>
    /\ history' = saveStateHistory(history, historyIndex, canvas, nextId)
    /\ historyIndex' = saveStateIndex(history')
    /\ nextId' = nextId + 1
    /\ RedrawEffect(TRUE, canvas)
    /\ isPanning' = FALSE
    /\ UNCHANGED <<src, loads, tool, lineWidth, panStartPoint, viewTransform>>
    /\ FrameEffect(isDrawing, frames)

\* onMouseUp and onMouseLeave
handleMouseUp ==
    /\ isDrawing => nextId < MaxIds
    /\ IF isDrawing
       THEN /\ isDrawing' = FALSE
            /\ mousePosRef' = <<>>
            /\ lastMousePosRef' = <<>>
            /\ history' = saveStateHistory(history, historyIndex, canvas, nextId)
            /\ historyIndex' = saveStateIndex(history')
            /\ nextId' = nextId + 1
            /\ RedrawEffect(TRUE, canvas)
       ELSE UNCHANGED <<isDrawing, mousePosRef, lastMousePosRef, history,
                        historyIndex, nextId, canvas>>
    /\ isPanning' = FALSE
    /\ UNCHANGED <<src, loads, tool, lineWidth, panStartPoint, viewTransform>>
    /\ FrameEffect(isDrawing, frames)

handleMouseMove(p) ==
    IF isPanning
    THEN LET newOffset == [x |-> p.x - panStartPoint.x, y |-> p.y - panStartPoint.y]
         IN  setViewTransform([viewTransform EXCEPT !.offset = newOffset])
    ELSE /\ mousePosRef' = IF isDrawing
                           THEN <<getTransformedPoint(viewTransform, p.x, p.y)>>
                           ELSE mousePosRef
         /\ UNCHANGED <<src, loads, canvas, history, historyIndex, nextId, tool,
                        lineWidth, isDrawing, isPanning, panStartPoint,
                        lastMousePosRef, viewTransform, frames>>

\* the index handleUndo sets
UndoIndexNoGuard(idx) == idx - 1

UndoIndex(idx) == IF idx > 0 THEN idx - 1 ELSE idx

handleUndo ==
    /\ historyIndex' = UndoIndex(historyIndex)
    /\ UNCHANGED <<src, loads, history, nextId, tool, lineWidth, isDrawing, isPanning,
                   panStartPoint, mousePosRef, lastMousePosRef, viewTransform, frames>>
    /\ RedrawEffect(historyIndex' # historyIndex, canvas)

\* the index handleResetEdits sets
ResetIndex(hist, idx) == IF Len(hist) > 0 THEN 0 ELSE idx

handleResetEdits ==
    /\ historyIndex' = ResetIndex(history, historyIndex)
    /\ UNCHANGED <<src, loads, history, nextId, tool, lineWidth, isDrawing, isPanning,
                   panStartPoint, mousePosRef, lastMousePosRef, viewTransform, frames>>
    /\ RedrawEffect(historyIndex' # historyIndex, canvas)

\* the tool buttons
setTool(t) ==
    /\ t # tool
    /\ tool' = t
    /\ UNCHANGED <<src, loads, canvas, history, historyIndex, nextId, lineWidth,
                   isDrawing, isPanning, panStartPoint, mousePosRef, lastMousePosRef,
                   viewTransform>>
    /\ FrameEffect(TRUE, frames)

\* the size slider
setLineWidth(w) ==
    /\ w # lineWidth
    /\ lineWidth' = w
    /\ UNCHANGED <<src, loads, canvas, history, historyIndex, nextId, tool,
                   isDrawing, isPanning, panStartPoint, mousePosRef, lastMousePosRef,
                   viewTransform>>
    /\ FrameEffect(TRUE, frames)

(***************************************************************************)
(* One animation frame: every pending callback runs, in the order it was    *)
(* requested.  A callback is the renderCanvas of the render that requested  *)
(* it: isDrawing, tool, lineWidth and viewTransform are the closure's (and  *)
(* isDrawing is true in every closure that is ever requested), the refs are *)
(* read live.  The run state is [canvas, last, again].                      *)
(***************************************************************************)
renderCanvas(st, cl, mouse) ==
    IF mouse = <<>> \/ st.last = <<>> \/ cl.tool = "pan"
    THEN st
    ELSE [canvas |-> strokeSegment(st.canvas, cl, st.last[1], mouse[1]),
          last   |-> mouse,
          again  |-> Append(st.again, cl)]

RECURSIVE RunFrames(_, _, _)
RunFrames(st, pending, mouse) ==
    IF pending = <<>> THEN st
    ELSE RunFrames(renderCanvas(st, Head(pending), mouse), Tail(pending), mouse)

AnimationFrame ==
    /\ frames # <<>>
    /\ LET st == RunFrames([canvas |-> canvas, last |-> lastMousePosRef, again |-> <<>>],
                           frames, mousePosRef)
       IN  /\ canvas' = st.canvas
           /\ lastMousePosRef' = st.last
           /\ frames' = st.again
    /\ UNCHANGED <<src, loads, history, historyIndex, nextId, tool, lineWidth,
                   isDrawing, isPanning, panStartPoint, mousePosRef, viewTransform>>

(***************************************************************************)
(* Export.  Strings are sequences of one-character strings.                 *)
(***************************************************************************)
UpperCase == <<"A", "B", "C", "D", "E", "F", "G", "H", "I", "J", "K", "L", "M",
               "N", "O", "P", "Q", "R", "S", "T", "U", "V", "W", "X", "Y", "Z">>
LowerCase == <<"a", "b", "c", "d", "e", "f", "g", "h", "i", "j", "k", "l", "m",
               "n", "o", "p", "q", "r", "s", "t", "u", "v", "w", "x", "y", "z">>

IsUpper(ch) == \E k \in DOMAIN UpperCase : UpperCase[k] = ch

\* String.prototype.toLowerCase
toLowerCase(str) ==
    [i \in DOMAIN str |->
        IF IsUpper(str[i])
        THEN LowerCase[CHOOSE k \in DOMAIN UpperCase : UpperCase[k] = str[i]]
        ELSE str[i]]

replaceEvery(str, pattern, replacement) ==
    [i \in DOMAIN str |-> IF str[i] = pattern THEN replacement ELSE str[i]]

\* String.prototype.replace with a string pattern: the first occurrence only
replace(str, pattern, replacement) ==
    IF \E i \in DOMAIN str : str[i] = pattern
    THEN LET first == CHOOSE i \in DOMAIN str :
                        /\ str[i] = pattern
                        /\ \A j \in 1..(i - 1) : str[j] # pattern
         IN  [str EXCEPT ![first] = replacement]
    ELSE str

Formats == {"png", "jpeg", "svg", "dxf"}

\* the format names as strings of characters
FormatChars ==
    [png |-> <<"p", "n", "g">>, jpeg |-> <<"j", "p", "e", "g">>,
     svg |-> <<"s", "v", "g">>, dxf |-> <<"d", "x", "f">>]

\* `cnc-design-${material}-${designType}.${ext}`
getFileName(opts, ext) ==
    <<"c", "n", "c", "-", "d", "e", "s", "i", "g", "n", "-">>
        \o toLowerCase(opts.material)
        \o <<"-">>
        \o replace(toLowerCase(opts.designType), " ", "-")
        \o <<".">>
        \o ext

tempCanvasFromDisplay(cv, hist, idx) == cv

\* tempCanvas: sized as the canvas, holding history[historyIndex]
tempCanvas(cv, hist, idx) ==
    IF Len(hist) > 0 /\ HasEntry(hist, idx)
    THEN putImageData(BlankCanvas(cv.width, cv.height), Entry(hist, idx).image)
    ELSE BlankCanvas(cv.width, cv.height)

\* the MIME type of the file the link points at
MimeType(format) ==
    IF format = "svg" THEN "image/svg+xml"
    ELSE IF format = "dxf" THEN "application/dxf"
    ELSE IF format = "png" THEN "image/png" ELSE "image/jpeg"

\* the menu's four buttons, rendered while the menu is open
handleDownload(format) ==
    /\ isDownloadMenuOpen
    /\ LET temp == tempCanvas(canvas, history, historyIndex)
       IN  /\ imageData' = IF format = "dxf" THEN temp ELSE imageData
           /\ dxfString' = IF format = "dxf" THEN generateDxf(temp) ELSE dxfString
           /\ link' = << [download |-> getFileName(options, FormatChars[format]),
                          type     |-> MimeType(format),
                          image    |-> IF format = "dxf" THEN NoImage ELSE temp,
                          text     |-> IF format = "dxf" THEN generateDxf(temp) ELSE <<>>] >>
    /\ isDownloadMenuOpen' = FALSE
    /\ UNCHANGED <<options, editorVars>>

\* the Download Design button: setIsDownloadMenuOpen(prev => !prev)
toggleDownloadMenu ==
    /\ isDownloadMenuOpen' = ~isDownloadMenuOpen
    /\ UNCHANGED <<options, link, dxfVars, editorVars>>

\* the document's mousedown listener, for a mousedown outside the download
\* button and its menu: what it does to the export state
handleClickOutside ==
    /\ isDownloadMenuOpen' = FALSE
    /\ UNCHANGED <<options, link, dxfVars>>

(***************************************************************************)
(* History variables.                                                       *)
(***************************************************************************)
Tracked(name) ==
    /\ discarded' = discarded \cup (IdsOf(history) \ IdsOf(history'))
    /\ undoRun' = IF name # "undo" THEN NoRun
                  ELSE IF undoRun.k = 0
                  THEN [from |-> historyIndex, k |-> 1, hist |-> history]
                  ELSE [undoRun EXCEPT !.k = undoRun.k + 1]

Ghost(name) ==
    /\ UNCHANGED <<dxfVars, exportVars>>
    /\ Tracked(name)
    /\ zoomEvent' = <<>>
    /\ panPointer' = <<>>

\* a step that changes the export state
GhostExport(name) ==
    /\ Tracked(name)
    /\ zoomEvent' = <<>>
    /\ panPointer' = <<>>

\* a zoom step about the device point `focal`
GhostZoom(focal) ==
    /\ UNCHANGED <<dxfVars, exportVars>>
    /\ Tracked("zoom")
    /\ zoomEvent' = <<[focal |-> focal, from |-> viewTransform]>>
    /\ panPointer' = <<>>

\* a step of the pan machine, after which the pan gesture's last pointer
\* position is `pointer`
GhostPan(name, pointer) ==
    /\ UNCHANGED <<dxfVars, exportVars>>
    /\ Tracked(name)
    /\ zoomEvent' = <<>>
    /\ panPointer' = pointer

Next ==
    \/ \E img \in SourceImages : loads = {} /\ SrcChange(img) /\ Ghost("src")
    \/ \E img \in loads : ImageOnload(img) /\ FramesWithin(MaxFrames) /\ Ghost("load")
    \/ \E p \in Pointers : handleMouseDown(p) /\ FramesWithin(MaxFrames) /\ Ghost("down")
    \/ \E p \in Pointers : handleMouseMove(p) /\ Ghost("move")
    \/ handleMouseUp /\ Ghost("up")
    \/ handleMouseUp /\ Ghost("leave")
    \/ handleUndo /\ undoRun.k < MaxUndoRun /\ Ghost("undo")
    \/ handleResetEdits /\ Ghost("reset")
    \/ \E t \in DrawTools : setTool(t) /\ FramesWithin(MaxFrames) /\ Ghost("tool")
    \/ AnimationFrame /\ Ghost("frame")

Spec == Init /\ [][Next]_vars

(***************************************************************************)
(* Steps of Spec, recognised by what only that handler does.                *)
(***************************************************************************)
\* handleMouseUp ending a draw gesture: the one caller of saveState
SnapshotStep == isDrawing /\ ~isDrawing'

\* image.onload of the Image `img`
LoadStep(img) == img \in loads /\ loads' = loads \ {img}

(***************************************************************************)
(* C1: either the history is empty and historyIndex = -1 (and then no image *)
(* has finished loading), or 0 <= historyIndex <= history.length - 1.       *)
(***************************************************************************)
C1_IndexInRange ==
    \/ /\ history = <<>>
       /\ historyIndex = -1
       /\ nextId = 0
    \/ /\ history # <<>>
       /\ 0 <= historyIndex
       /\ historyIndex <= Len(history) - 1

\* after two snapshots and an undo the index is inside the history, not at its end
C1_Witness ==
    /\ Len(history) = 3
    /\ historyIndex = 1
    /\ undoRun.k = 1

(***************************************************************************)
(* C2: a snapshot taken at historyIndex = i leaves exactly the old entries  *)
(* 0..i followed by the new entry and sets historyIndex to i + 1, the last  *)
(* position; every entry that had an index above i is gone; and no step,    *)
(* undo included, makes a removed entry the current one.                    *)
(***************************************************************************)
C2_RedoDiscard ==
    [][ /\ SnapshotStep =>
            /\ Len(history') = historyIndex + 2
            /\ SubSeq(history', 1, historyIndex + 1) = SubSeq(history, 1, historyIndex + 1)
            /\ history'[historyIndex + 2].image = canvas
            /\ history'[historyIndex + 2].id \notin IdsOf(history)
            /\ historyIndex' = historyIndex + 1
            /\ historyIndex' = Len(history') - 1
            /\ \A k \in DOMAIN history :
                 k - 1 > historyIndex =>
                    /\ history[k].id \notin IdsOf(history')
                    /\ history[k].id \in discarded'
        /\ HasEntry(history', historyIndex') =>
               Entry(history', historyIndex').id \notin discarded'
      ]_vars

\* a snapshot has removed an entry, and an undo has run since
C2_Witness ==
    /\ discarded # {}
    /\ undoRun.k > 0
    /\ historyIndex = 0
    /\ Len(history) = 2

(***************************************************************************)
(* C3: K undos in a row from index i >= 0 leave historyIndex at             *)
(* max(0, i - K) and the history as it was; undo at index 0 and undo on an  *)
(* empty history (index -1) change nothing.                                 *)
(***************************************************************************)
C3_UndoLinear ==
    undoRun.k > 0 =>
        /\ history = undoRun.hist
        /\ undoRun.from >= 0 => historyIndex = Max(0, undoRun.from - undoRun.k)
        /\ undoRun.from <= 0 => historyIndex = undoRun.from

\* two undos from index 1: the second one stops at 0
C3_Witness ==
    /\ undoRun.k = 2
    /\ undoRun.from = 1
    /\ historyIndex = 0
    /\ Len(history) = 2

(***************************************************************************)
(* C4: a load with the dimensions of the current buffer preserves a         *)
(* non-empty history stack, entries and index; a load with other            *)
(* dimensions resets the history to the single entry of the new image, at   *)
(* index 0.                                                                 *)
(***************************************************************************)
SameSize(cv, img) == cv.width = img.width /\ cv.height = img.height

C4_SameSizeLoadKeepsHistory ==
    [][ \A img \in loads :
          LoadStep(img) =>
              IF SameSize(canvas, img)
              THEN history # <<>> => history' = history /\ historyIndex' = historyIndex
              ELSE /\ Len(history') = 1
                   /\ history'[1].image = img
                   /\ historyIndex' = 0
      ]_vars

(***************************************************************************)
(* SpecView: the viewport machine.  The pointer is used for panning and     *)
(* zooming only; the image that was loading at mount may finish loading at  *)
(* any time.                                                                *)
(***************************************************************************)
InitView ==
    /\ Init
    /\ src = PartImage(MaxSrcW)

NextView ==
    \/ \E p \in Pointers, up \in BOOLEAN :
          handleWheel(p, up) /\ OffsetInRange(viewTransform') /\ Ghost("wheel")
    \/ \E d \in {"in", "out", "reset"}, c \in Pointers :
          handleZoomChange(d, c) /\ OffsetInRange(viewTransform') /\ Ghost("zoom")
    \/ setTool("pan") /\ Ghost("tool")
    \/ \E p \in Pointers : tool = "pan" /\ handleMouseDown(p) /\ Ghost("down")
    \/ \E p \in Pointers :
          handleMouseMove(p) /\ OffsetInRange(viewTransform') /\ Ghost("move")
    \/ handleMouseUp /\ Ghost("up")
    \/ \E img \in loads : ImageOnload(img) /\ Ghost("load")

SpecView == InitView /\ [][NextView]_vars

(***************************************************************************)
(* C10: after any sequence of wheel zooms, zoom-button presses, view        *)
(* resets, pans and image loads the scale is within [0.1, 10.0].            *)
(***************************************************************************)
C10_ScaleClamped ==
    /\ 10 * viewTransform.scale >= ScaleUnit
    /\ viewTransform.scale <= 10 * ScaleUnit

\* the scale at its upper limit, away from the origin, while a pan is active
C10_Witness ==
    /\ viewTransform.scale = 10 * ScaleUnit
    /\ viewTransform.offset.x # 0
    /\ isPanning

(***************************************************************************)
(* SpecDxf: the rasters handed to generateDxf.                              *)
(***************************************************************************)
\* channel values on both sides of the threshold
ChannelVals == {0, threshold - 1, threshold, threshold + 1, 255}

\* every two-tone raster of at most MaxDxfW x MaxDxfH and MaxDxfArea pixels
TwoToneImages ==
    UNION { { MakeImage(d[1], d[2], [i \in 1..(d[1] * d[2]) |-> px[i]]) :
                px \in [1..(d[1] * d[2]) -> {Black, White}] } :
            d \in { e \in (1..MaxDxfW) \X (1..MaxDxfH) : e[1] * e[2] <= MaxDxfArea } }

\* every one-pixel raster over the channel values (a fully transparent pixel
\* reads back from a canvas as transparent black)
OnePixelImages ==
    { MakeImage(1, 1, <<px>>) :
        px \in { p \in ChannelVals \X ChannelVals \X ChannelVals \X ChannelVals :
                   p[4] = 0 => p = Clear } }

DxfInputs == TwoToneImages \cup OnePixelImages

InitDxf ==
    /\ EditorInit
    /\ src = PartImage(MaxSrcW)
    /\ imageData \in DxfInputs
    /\ dxfString = <<>>
    /\ NoDownload(DefaultOptions)

\* const dxfString = generateDxf(imageData)
GenerateDxf ==
    /\ dxfString = <<>>
    /\ dxfString' = generateDxf(imageData)
    /\ UNCHANGED <<imageData, editorVars, exportVars, ghostVars>>

NextDxf == GenerateDxf

SpecDxf == InitDxf /\ [][NextDxf]_vars

(***************************************************************************)
(* Reading a DXF text back: the LINE entities between header and footer.    *)
(***************************************************************************)
MaxCoord == IF MaxDxfW > MaxDxfH THEN MaxDxfW ELSE MaxDxfH

IsNum(s) == \E n \in 0..MaxCoord : ToString(n) = s

\* the number a decimal string denotes, -1 when it denotes none
ToNum(s) == IF IsNum(s) THEN CHOOSE n \in 0..MaxCoord : ToString(n) = s ELSE -1

EntityLen == 12

EntityCount(text) == IF Len(text) >= 8 THEN (Len(text) - 8) \div EntityLen ELSE 0

EntityAt(text, k) == SubSeq(text, 4 + EntityLen * (k - 1) + 1, 4 + EntityLen * k)

DxfLines(text) ==
    [k \in 1..EntityCount(text) |->
        LET e == EntityAt(text, k)
        IN  [startX |-> ToNum(e[6]), startY |-> ToNum(e[8]),
             endX   |-> ToNum(e[10]), endY  |-> ToNum(e[12])]]

\* ink as the claims define it: red strictly below 128, alpha strictly above 128
InkAt(img, x, y) == PixelOf(img, x, y)[1] < 128 /\ PixelOf(img, x, y)[4] > 128

\* the maximal contiguous runs of ink of every row
Runs(img) ==
    { r \in [y : 0..(img.height - 1), s : 0..(img.width - 1), e : 0..(img.width - 1)] :
        /\ r.s <= r.e
        /\ \A x \in r.s..r.e : InkAt(img, x, r.y)
        /\ r.s = 0 \/ ~InkAt(img, r.s - 1, r.y)
        /\ r.e = img.width - 1 \/ ~InkAt(img, r.e + 1, r.y) }

LineOfRun(img, r) ==
    [startX |-> r.s, startY |-> img.height - 1 - r.y,
     endX   |-> r.e, endY   |-> img.height - 1 - r.y]

\* the emitted lines that lie on row y and cover column x
Covering(img, L, x, y) ==
    { k \in DOMAIN L : /\ L[k].startY = img.height - 1 - y
                       /\ L[k].endY = img.height - 1 - y
                       /\ L[k].startX <= x /\ x <= L[k].endX }

LinesOfRow(img, L, y) ==
    { k \in DOMAIN L : L[k].startY = img.height - 1 - y }

Generated == dxfString # <<>>

(***************************************************************************)
(* C5: generateDxf emits exactly one LINE per maximal run of ink of each    *)
(* row, from the run's first to its last column at Y = height - 1 - y, and  *)
(* no other LINE: a pixel is ink iff exactly one LINE of its row covers it. *)
(***************************************************************************)
C5_OneLinePerRun ==
    Generated =>
        LET L == DxfLines(dxfString)
        IN  /\ Len(L) = Cardinality(Runs(imageData))
            /\ \A r \in Runs(imageData) :
                 Cardinality({ k \in DOMAIN L : L[k] = LineOfRun(imageData, r) }) = 1
            /\ \A x \in 0..(imageData.width - 1), y \in 0..(imageData.height - 1) :
                 InkAt(imageData, x, y) <=>
                     Cardinality(Covering(imageData, L, x, y)) = 1

C5_Witness ==
    /\ Generated
    /\ imageData.height = 2
    /\ \E r1, r2, r3 \in Runs(imageData) :
         r1.y = 0 /\ r2.y = 0 /\ r1.e < r2.s /\ r3.y = 1 /\ r3.s < r3.e

(***************************************************************************)
(* C6: a run open at the end of a row is emitted with end column width - 1; *)
(* a one-pixel run is emitted with start = end; the 4x1 raster              *)
(* [ink, ink, non-ink, ink] gives exactly the LINEs 0..1 and 3..3 at        *)
(* Y = height - 1; no LINE continues from one row into the next.            *)
(***************************************************************************)
FourByOne == MakeImage(4, 1, <<Black, Black, White, Black>>)

C6_RowEndClosure ==
    Generated =>
        LET L == DxfLines(dxfString)
            w == imageData.width
            h == imageData.height
        IN  /\ \A r \in Runs(imageData) :
                 r.e = w - 1 =>
                     \E k \in DOMAIN L : L[k] = LineOfRun(imageData, r) /\ L[k].endX = w - 1
            /\ \A r \in Runs(imageData) :
                 r.s = r.e =>
                     \E k \in DOMAIN L : /\ L[k].startX = r.s /\ L[k].endX = r.s
                                         /\ L[k].startY = h - 1 - r.y
            /\ imageData = FourByOne =>
                 L = << [startX |-> 0, startY |-> h - 1, endX |-> 1, endY |-> h - 1],
                        [startX |-> 3, startY |-> h - 1, endX |-> 3, endY |-> h - 1] >>
            /\ \A k \in DOMAIN L :
                 /\ L[k].startY = L[k].endY
                 /\ 0 <= L[k].startX /\ L[k].startX <= L[k].endX /\ L[k].endX <= w - 1
            /\ \A y \in 0..(h - 2) :
                 InkAt(imageData, w - 1, y) /\ InkAt(imageData, 0, y + 1) =>
                     \E j, k \in DOMAIN L :
                        /\ j # k
                        /\ L[j].startY = h - 1 - y /\ L[j].endX = w - 1
                        /\ L[k].startY = h - 2 - y /\ L[k].startX = 0

C6_Witness ==
    /\ Generated
    /\ imageData = FourByOne
    /\ Len(DxfLines(dxfString)) = 2

(***************************************************************************)
(* C7: a row without ink contributes no LINE; a row of width W that is all  *)
(* ink contributes exactly one LINE, from column 0 to column W - 1.         *)
(***************************************************************************)
C7_EmptyAndFullRows ==
    Generated =>
        LET L == DxfLines(dxfString)
            w == imageData.width
            h == imageData.height
        IN  \A y \in 0..(h - 1) :
              /\ (\A x \in 0..(w - 1) : ~InkAt(imageData, x, y)) =>
                     LinesOfRow(imageData, L, y) = {}
              /\ (\A x \in 0..(w - 1) : InkAt(imageData, x, y)) =>
                     /\ Cardinality(LinesOfRow(imageData, L, y)) = 1
                     /\ \A k \in LinesOfRow(imageData, L, y) :
                          L[k] = [startX |-> 0, startY |-> h - 1 - y,
                                  endX |-> w - 1, endY |-> h - 1 - y]

C7_Witness ==
    /\ Generated
    /\ imageData.height = 2 /\ imageData.width >= 3
    /\ \A x \in 0..(imageData.width - 1) :
         InkAt(imageData, x, 0) /\ ~InkAt(imageData, x, 1)
    /\ Len(DxfLines(dxfString)) = 1

(***************************************************************************)
(* C8: a pixel is ink iff red < 128 and alpha > 128; red = 128 or           *)
(* alpha = 128 is not ink; green and blue do not change the output.         *)
(***************************************************************************)
\* the raster with the green and blue channel of every pixel replaced
WithGreenBlue(img, g, b) ==
    [img EXCEPT !.data = [i \in DOMAIN img.data |->
                            IF i % 4 = 2 THEN g ELSE IF i % 4 = 3 THEN b ELSE img.data[i]]]

C8_InkClassification ==
    Generated =>
        LET L == DxfLines(dxfString)
        IN  /\ \A x \in 0..(imageData.width - 1), y \in 0..(imageData.height - 1) :
                 LET px == PixelOf(imageData, x, y)
                 IN  /\ Covering(imageData, L, x, y) # {} <=> (px[1] < 128 /\ px[4] > 128)
                     /\ (px[1] = 128 \/ px[4] = 128) => Covering(imageData, L, x, y) = {}
            /\ \A g, b \in ChannelVals :
                 generateDxf(WithGreenBlue(imageData, g, b)) = dxfString

C8_Witness ==
    /\ Generated
    /\ imageData = MakeImage(1, 1, << <<127, 255, 128, 129>> >>)
    /\ Len(DxfLines(dxfString)) = 1

(***************************************************************************)
(* C9: the text begins with the SECTION / ENTITIES header, ends with the    *)
(* ENDSEC / EOF footer, and holds between them only LINE entities, each on  *)
(* layer "0" with two 2D end points; without ink it is header then footer.  *)
(***************************************************************************)
IsLineEntity(e) ==
    /\ Len(e) = EntityLen
    /\ e[1] = "0" /\ e[2] = "LINE"
    /\ e[3] = "8" /\ e[4] = "0"
    /\ e[5] = "10" /\ IsNum(e[6])
    /\ e[7] = "20" /\ IsNum(e[8])
    /\ e[9] = "11" /\ IsNum(e[10])
    /\ e[11] = "21" /\ IsNum(e[12])

C9_DocumentStructure ==
    Generated =>
        LET n == Len(dxfString)
        IN  /\ n >= 8
            /\ SubSeq(dxfString, 1, 4) = <<"0", "SECTION", "2", "ENTITIES">>
            /\ SubSeq(dxfString, n - 3, n) = <<"0", "ENDSEC", "0", "EOF">>
            /\ (n - 8) % EntityLen = 0
            /\ \A k \in 1..EntityCount(dxfString) : IsLineEntity(EntityAt(dxfString, k))
            /\ (\A x \in 0..(imageData.width - 1), y \in 0..(imageData.height - 1) :
                    ~InkAt(imageData, x, y))
                 => dxfString = <<"0", "SECTION", "2", "ENTITIES", "0", "ENDSEC", "0", "EOF">>

C9_Witness ==
    /\ Generated
    /\ Len(dxfString) = 8 + 3 * EntityLen
    /\ imageData.height = 2

(***************************************************************************)
(* SpecZoom: one zoom step, by the wheel or by a zoom button, from every    *)
(* view of a bounded set: every scale that zoom steps reach from 1, and     *)
(* offsets as pans leave them.                                              *)
(***************************************************************************)
\* zoom steps from scale 1 that the scales are collected over
MaxZoomSteps == 13
\* largest |offset| of a view, in device pixels
MaxZoomOffset == 300

ZoomSteps(S) ==
    { clampScale(zoomedScale(sc, f, zoomIn)) :
        sc \in S, f \in {WheelZoomFactor, ButtonZoomFactor}, zoomIn \in BOOLEAN }

RECURSIVE ScalesWithin(_, _)
ScalesWithin(S, n) == IF n = 0 THEN S ELSE ScalesWithin(S \cup ZoomSteps(S), n - 1)

ZoomScales == ScalesWithin({ScaleUnit}, MaxZoomSteps)

ZoomOffsets == {-MaxZoomOffset, 0, MaxZoomOffset}

ZoomViews ==
    { [scale |-> sc, offset |-> [x |-> ox, y |-> oy]] :
        sc \in ZoomScales, ox \in ZoomOffsets, oy \in ZoomOffsets }

\* cursor positions of wheel events, and the centre of the canvas's container
ZoomPointers == { [x |-> 0, y |-> 0], [x |-> 2 * MaxZoomOffset, y |-> MaxZoomOffset] }
ZoomCenter == [x |-> MaxZoomOffset, y |-> MaxZoomOffset \div 2]

InitZoom ==
    /\ \E vt \in ZoomViews : EditorAt(vt)
    /\ src = PartImage(MaxSrcW)
    /\ imageData = NoImage
    /\ dxfString = <<>>
    /\ NoDownload(DefaultOptions)

NextZoom ==
    \/ \E p \in ZoomPointers, up \in BOOLEAN :
          zoomEvent = <<>> /\ handleWheel(p, up) /\ GhostZoom(p)
    \/ \E d \in {"in", "out"} :
          zoomEvent = <<>> /\ handleZoomChange(d, ZoomCenter) /\ GhostZoom(ZoomCenter)

SpecZoom == InitZoom /\ [][NextZoom]_vars

(***************************************************************************)
(* C11: for every zoom step with focal device point P (the cursor of a      *)
(* wheel event, the container centre for the zoom buttons) the model-space  *)
(* point (P - offset) / scale is the same before and after the step, also   *)
(* when the new scale is clamped at 0.1 or 10.  Offsets are whole device    *)
(* pixels here, so "the same" is to within one device pixel, seen in model  *)
(* space at the new scale, plus one unit for each of the two quotients.     *)
(***************************************************************************)
Abs(n) == IF n < 0 THEN -n ELSE n

\* one device pixel in model-space units at the scale of vt, and two units
ZoomResolution(vt) == (ScaleUnit * ScaleUnit) \div vt.scale + 2

C11_ZoomToCursor ==
    zoomEvent # <<>> =>
        LET P      == zoomEvent[1].focal
            before == getTransformedPoint(zoomEvent[1].from, P.x, P.y)
            after  == getTransformedPoint(viewTransform, P.x, P.y)
        IN  /\ Abs(after.x - before.x) <= ZoomResolution(viewTransform)
            /\ Abs(after.y - before.y) <= ZoomResolution(viewTransform)

\* a zoom-in about a point away from the offset whose new scale was clamped at 10
C11_Witness ==
    /\ zoomEvent # <<>>
    /\ viewTransform.scale = 10 * ScaleUnit
    /\ zoomEvent[1].from.scale < 10 * ScaleUnit
    /\ zoomedScale(zoomEvent[1].from.scale, WheelZoomFactor, TRUE) > 10 * ScaleUnit
    /\ zoomEvent[1].focal.x = 2 * MaxZoomOffset
    /\ zoomEvent[1].from.offset.x = -MaxZoomOffset
    /\ viewTransform.offset.x # zoomEvent[1].from.offset.x

(***************************************************************************)
(* SpecGesture: the gesture machine.  One image loads; then the pointer     *)
(* draws and pans with all three tools, and tool changes, wheel zooms, view *)
(* resets, undo, reset-edits and frame callbacks interleave freely with the *)
(* gestures.                                                                *)
(***************************************************************************)
\* wheel zoom-in steps from scale 1 that the scale may reach
MaxWheelSteps == 1
\* largest offset a pan or zoom may reach
MaxPanOffset == 1
\* ImageData objects allocated in one behaviour (the load and the snapshots)
MaxSnapshots == 2

RECURSIVE WheelScales(_)
WheelScales(n) ==
    IF n = 0 THEN {ScaleUnit}
    ELSE WheelScales(n - 1) \cup
         { clampScale(zoomedScale(sc, WheelZoomFactor, TRUE)) : sc \in WheelScales(n - 1) }

\* the views the gesture machine stays within
ViewInRange(vt) ==
    /\ vt.offset.x \in 0..MaxPanOffset
    /\ vt.offset.y \in 0..MaxPanOffset
    /\ vt.scale \in WheelScales(MaxWheelSteps)

InitGesture ==
    /\ Init
    /\ src = WhiteImage(MaxSrcW)

NextGesture ==
    \/ \E img \in loads : ImageOnload(img) /\ FramesWithin(MaxFrames) /\ Ghost("load")
    \/ \E p \in Pointers :
          /\ loads = {}
          /\ handleMouseDown(p)
          /\ FramesWithin(MaxFrames)
          /\ Ghost("down")
    \/ \E p \in Pointers :
          /\ loads = {}
          /\ handleMouseMove(p)
          /\ ViewInRange(viewTransform') /\ FramesWithin(MaxFrames)
          /\ Ghost("move")
    \/ loads = {} /\ handleMouseUp /\ nextId' <= MaxSnapshots /\ Ghost("up")
    \/ loads = {} /\ handleMouseUp /\ nextId' <= MaxSnapshots /\ Ghost("leave")
    \/ \E p \in Pointers, up \in BOOLEAN :
          /\ loads = {}
          /\ handleWheel(p, up)
          /\ ViewInRange(viewTransform') /\ FramesWithin(MaxFrames)
          /\ Ghost("wheel")
    \/ /\ loads = {}
       /\ handleZoomChange("reset", ZoomCenter)
       /\ FramesWithin(MaxFrames)
       /\ Ghost("zoom")
    \/ loads = {} /\ handleUndo /\ Ghost("undone")
    \/ loads = {} /\ handleResetEdits /\ Ghost("reset")
    \/ \E t \in Tools : loads = {} /\ setTool(t) /\ FramesWithin(MaxFrames) /\ Ghost("tool")
    \/ AnimationFrame /\ Ghost("frame")

SpecGesture == InitGesture /\ [][NextGesture]_vars

\* a step of one of the canvas's pointer handlers (down, move, up, leave)
PointerEvent ==
    \/ \E p \in Pointers : handleMouseDown(p) \/ handleMouseMove(p)
    \/ handleMouseUp

(***************************************************************************)
(* C12: a draw gesture and a pan gesture are never active together, and     *)
(* while the pan tool is selected no pointer event and no frame callback    *)
(* changes the raster buffer.                                               *)
(***************************************************************************)
C12_PanExcludesDrawing ==
    [][ /\ ~(isDrawing' /\ isPanning')
        /\ (tool = "pan" /\ (PointerEvent \/ AnimationFrame)) => canvas' = canvas
      ]_vars

(***************************************************************************)
(* C13: a draw gesture appends exactly one history entry, when pointer-up   *)
(* or pointer-leave ends it; a pointer-up or pointer-leave with no draw     *)
(* gesture active (one that follows a pointer-leave, or that ends a pan     *)
(* gesture) appends nothing; pointer-down, pointer moves, pans, zooms,      *)
(* undo, reset, tool changes and frame callbacks leave the history as it    *)
(* is; and a draw gesture ends in no other way.                             *)
(***************************************************************************)
\* a step of a handler that is neither pointer-up / pointer-leave nor a load
OtherEvent ==
    \/ \E p \in Pointers : handleMouseDown(p) \/ handleMouseMove(p)
    \/ \E p \in Pointers, up \in BOOLEAN : handleWheel(p, up)
    \/ \E d \in {"in", "out", "reset"} : handleZoomChange(d, ZoomCenter)
    \/ handleUndo
    \/ handleResetEdits
    \/ \E t \in Tools : setTool(t)
    \/ AnimationFrame

C13_OneEntryPerGesture ==
    [][ /\ (handleMouseUp /\ isDrawing) =>
              /\ Len(history') = Len(Slice(history, historyIndex)) + 1
              /\ SubSeq(history', 1, Len(history') - 1) = Slice(history, historyIndex)
              /\ history'[Len(history')].id \notin IdsOf(history)
              /\ ~isDrawing'
        /\ (handleMouseUp /\ ~isDrawing) => history' = history
        /\ OtherEvent => history' = history
        /\ (isDrawing /\ ~isDrawing') => handleMouseUp
      ]_vars

\* one draw gesture has ended (two ImageData objects exist: the load's and the
\* snapshot's); since then an undo, a zoom and the start of a pan gesture
C13_Witness ==
    /\ Len(history) = 2
    /\ nextId = 2
    /\ historyIndex = 0
    /\ ~isDrawing
    /\ isPanning
    /\ viewTransform.scale # ScaleUnit
    /\ viewTransform.offset.x # 0

(***************************************************************************)
(* SpecName: downloads in every format, for every material and design type  *)
(* of a bounded set of strings.                                             *)
(***************************************************************************)
\* longest metadata string
MaxNameLen == 2

\* an upper-case letter, a lower-case letter, a digit, the space
NameChars == {"A", "b", "2", " "}

NameStrings == UNION { [1..n -> NameChars] : n \in 1..MaxNameLen }

InitName ==
    /\ EditorInit
    /\ src = PartImage(MaxSrcW)
    /\ imageData = NoImage
    /\ dxfString = <<>>
    /\ \E m \in NameStrings, d \in NameStrings :
          NoDownload([material |-> m, designType |-> d])

NextName ==
    \/ toggleDownloadMenu /\ GhostExport("menu")
    \/ \E f \in Formats : handleDownload(f) /\ GhostExport("download")

SpecName == InitName /\ [][NextName]_vars

(***************************************************************************)
(* C14: the download name is "cnc-design-<material>-<designType>.<ext>"     *)
(* with both metadata parts lower-cased and every space in them replaced by *)
(* a hyphen: the name holds no space and no upper-case letter.              *)
(***************************************************************************)
Hyphenated(str) == replaceEvery(toLowerCase(str), " ", "-")

C14_FileName ==
    link # <<>> =>
        /\ \E f \in Formats :
              link[1].download =
                  <<"c", "n", "c", "-", "d", "e", "s", "i", "g", "n", "-">>
                      \o Hyphenated(options.material) \o <<"-">>
                      \o Hyphenated(options.designType) \o <<".">> \o FormatChars[f]
        /\ \A i \in DOMAIN link[1].download :
              link[1].download[i] # " " /\ ~IsUpper(link[1].download[i])

(***************************************************************************)
(* SpecExport: downloads interleaved with loading, drawing and undo.        *)
(***************************************************************************)
InitExport == Init /\ src = WhiteImage(MaxSrcW)

\* a mousedown on the canvas also reaches the document's listener
NextExport ==
    \/ \E img \in loads :
          /\ ImageOnload(img) /\ FramesWithin(MaxFrames)
          /\ Ghost("load")
    \/ \E p \in Pointers :
          /\ loads = {}
          /\ handleMouseDown(p) /\ FramesWithin(MaxFrames)
          /\ handleClickOutside /\ GhostExport("down")
    \/ loads = {} /\ handleMouseUp /\ nextId' <= MaxSnapshots /\ Ghost("up")
    \/ loads = {} /\ handleUndo /\ Ghost("undone")
    \/ \E t \in DrawTools : loads = {} /\ setTool(t) /\ FramesWithin(MaxFrames) /\ Ghost("tool")
    \/ loads = {} /\ toggleDownloadMenu /\ GhostExport("menu")
    \/ \E f \in Formats : loads = {} /\ handleDownload(f) /\ GhostExport("download")
    \/ AnimationFrame /\ Ghost("frame")

SpecExport == InitExport /\ [][NextExport]_vars

(***************************************************************************)
(* C15: a download in any format reads the entry history[historyIndex] and  *)
(* leaves the history, historyIndex, the displayed buffer, the viewport     *)
(* transform, the tool and the line width unchanged; the only editor state  *)
(* it changes is closing the download menu.                                 *)
(***************************************************************************)
Exported == IF link'[1].type = "application/dxf" THEN imageData' ELSE link'[1].image

C15_ExportReadOnly ==
    [][ \A f \in Formats :
            handleDownload(f) =>
                /\ UNCHANGED <<history, historyIndex, canvas, viewTransform, tool, lineWidth>>
                /\ UNCHANGED <<editorVars, options>>
                /\ ~isDownloadMenuOpen'
                /\ link'[1].type = MimeType(f)
                /\ history # <<>> => Exported = Entry(history, historyIndex).image
      ]_vars

\* a download taken in the middle of a draw gesture, with paint on the
\* displayed buffer that no entry holds yet
C15_Witness ==
    /\ link # <<>>
    /\ ~isDownloadMenuOpen
    /\ isDrawing
    /\ Len(history) = 2
    /\ historyIndex = 0
    /\ canvas # Entry(history, historyIndex).image
    /\ link[1].image = Entry(history, historyIndex).image

(***************************************************************************)
(* C16: whenever the history is non-empty, reset-edits sets historyIndex to *)
(* 0 from any current index and the buffer is restored to entry 0, without  *)
(* removing or altering any history entry; on an empty history it changes   *)
(* nothing; a second reset-edits would change nothing more.                 *)
(***************************************************************************)
C16_ResetToOriginal ==
    [][ handleResetEdits =>
            /\ history' = history
            /\ history # <<>> =>
                  /\ historyIndex' = 0
                  /\ canvas' = Entry(history, 0).image
            /\ history = <<>> => UNCHANGED editorVars
            /\ ResetIndex(history', historyIndex') = historyIndex'
      ]_vars

(***************************************************************************)
(* C17: whenever the history is non-empty, the entry at index 0 is          *)
(* pixel-for-pixel the most recently loaded source image, whether the load  *)
(* changed the buffer dimensions or kept them, transparent pixels included: *)
(* a load puts its image there and no other step replaces it.               *)
(***************************************************************************)
C17_PristineEntry ==
    [][ /\ \A img \in loads :
              LoadStep(img) => history' # <<>> /\ Entry(history', 0).image = img
        /\ (history # <<>> /\ loads' = loads) =>
              history' # <<>> /\ Entry(history', 0) = Entry(history, 0)
      ]_vars

(***************************************************************************)
(* SpecChains: draw gestures during which the tool, the line width and the  *)
(* zoom change, so that callbacks of more than one render are pending.      *)
(***************************************************************************)
\* frame callbacks pending at once in SpecChains
MaxChains == 2

InitChains == Init /\ src = WhiteImage(MaxSrcW)

NextChains ==
    \/ \E img \in loads : ImageOnload(img) /\ FramesWithin(MaxChains) /\ Ghost("load")
    \/ \E p \in Pointers :
          /\ loads = {}
          /\ handleMouseDown(p) /\ FramesWithin(MaxChains)
          /\ Ghost("down")
    \/ \E p \in Pointers : loads = {} /\ isDrawing /\ handleMouseMove(p) /\ Ghost("move")
    \/ loads = {} /\ handleMouseUp /\ nextId' <= MaxSnapshots /\ Ghost("up")
    \/ \E t \in DrawTools :
          loads = {} /\ setTool(t) /\ FramesWithin(MaxChains) /\ Ghost("tool")
    \/ \E w \in LineWidths :
          loads = {} /\ setLineWidth(w) /\ FramesWithin(MaxChains) /\ Ghost("width")
    \/ \E p \in Pointers, up \in BOOLEAN :
          /\ loads = {}
          /\ handleWheel(p, up)
          /\ ViewInRange(viewTransform') /\ FramesWithin(MaxChains)
          /\ Ghost("wheel")
    \/ AnimationFrame /\ Ghost("frame")

SpecChains == InitChains /\ [][NextChains]_vars

(***************************************************************************)
(* C18: every segment composited onto the buffer uses the blend mode of the *)
(* tool selected at the moment the segment is rendered (brush: opaque       *)
(* black, source-over; eraser: destination-out), under every interleaving   *)
(* of tool changes, gesture start/end and frame callbacks; and a segment    *)
(* changes no pixel outside its stroke path.                                *)
(***************************************************************************)
\* the pending callbacks, had each been created with the selected tool
WithSelectedTool(pending) ==
    [i \in DOMAIN pending |-> [pending[i] EXCEPT !.tool = tool]]

\* is pixel (x, y) on the path of a segment the pending callbacks stroke
OnPendingPath(x, y) ==
    /\ mousePosRef # <<>>
    /\ lastMousePosRef # <<>>
    /\ \E i \in DOMAIN frames :
          OnStroke(x, y,
                   ToCanvas(frames[i].viewTransform,
                            IF i = 1 THEN lastMousePosRef[1] ELSE mousePosRef[1]),
                   ToCanvas(frames[i].viewTransform, mousePosRef[1]),
                   frames[i].lineWidth)

C18_ToolPerSegment ==
    [][ AnimationFrame =>
            /\ canvas' = RunFrames([canvas |-> canvas, last |-> lastMousePosRef,
                                    again |-> <<>>],
                                   WithSelectedTool(frames), mousePosRef).canvas
            /\ \A x \in 0..(canvas.width - 1), y \in 0..(canvas.height - 1) :
                  ~OnPendingPath(x, y) => PixelOf(canvas', x, y) = PixelOf(canvas, x, y)
      ]_vars

(***************************************************************************)
(* C19: for every pointer-move of a draw gesture a segment ending at that   *)
(* move's point (or a later point of the gesture) is composited before the  *)
(* gesture's snapshot is taken: when the snapshot is taken, the point the   *)
(* last composited segment ended at (the pointer-down point, if none was    *)
(* composited after it) is the last pointer position sampled.               *)
(***************************************************************************)
C19_StrokeComplete ==
    [][ SnapshotStep => lastMousePosRef = mousePosRef ]_vars

(***************************************************************************)
(* C20: the history entry appended at the end of a draw gesture equals the  *)
(* buffer as it was at gesture start with every segment composited during   *)
(* that gesture applied: while a gesture is active only a frame callback    *)
(* changes the buffer, and the snapshot is the buffer.                      *)
(***************************************************************************)
C20_StrokePersists ==
    [][ /\ (isDrawing /\ ~SnapshotStep /\ ~AnimationFrame) => canvas' = canvas
        /\ SnapshotStep => Entry(history', historyIndex').image = canvas
      ]_vars

(***************************************************************************)
(* SpecPan: pan gestures with wheel zooms inside them.  A wheel event       *)
(* inside a gesture arrives at the pointer's position, which is that of the *)
(* gesture's last pointer event; the wheel is turned at scale 1 only.        *)
(***************************************************************************)
\* largest |offset| a pan or zoom of SpecPan may reach
MaxPanDrift == 700

DriftInRange(vt) ==
    /\ vt.offset.x \in -MaxPanDrift..MaxPanDrift
    /\ vt.offset.y \in -MaxPanDrift..MaxPanDrift

InitPan == Init /\ src = WhiteImage(MaxSrcW)

NextPan ==
    \/ \E img \in loads : ImageOnload(img) /\ GhostPan("load", panPointer)
    \/ setTool("pan") /\ GhostPan("tool", panPointer)
    \/ \E p \in ZoomPointers : tool = "pan" /\ handleMouseDown(p) /\ GhostPan("down", <<p>>)
    \/ \E p \in ZoomPointers :
          /\ isPanning
          /\ handleMouseMove(p)
          /\ DriftInRange(viewTransform')
          /\ GhostPan("move", <<p>>)
    \/ handleMouseUp /\ GhostPan("up", <<>>)
    \/ \E p \in ZoomPointers, up \in BOOLEAN :
          /\ panPointer # <<>> => p = panPointer[1]
          /\ handleWheel(p, up)
          /\ DriftInRange(viewTransform')
          /\ viewTransform.scale = ScaleUnit
          /\ GhostPan("wheel", panPointer)

SpecPan == InitPan /\ [][NextPan]_vars

(***************************************************************************)
(* C21: at every pointer-move of a pan gesture the viewport offset equals   *)
(* the offset just before that move plus the device-space delta of the      *)
(* pointer since the previous pan event, and the scale is unchanged, also   *)
(* when a wheel zoom occurs between pointer-down and a later move of the    *)
(* same pan gesture.                                                        *)
(***************************************************************************)
C21_PanAddsDelta ==
    [][ \A p \in ZoomPointers :
            (isPanning /\ panPointer # <<>> /\ handleMouseMove(p)) =>
                /\ viewTransform'.offset.x =
                       viewTransform.offset.x + (p.x - panPointer[1].x)
                /\ viewTransform'.offset.y =
                       viewTransform.offset.y + (p.y - panPointer[1].y)
                /\ viewTransform'.scale = viewTransform.scale
      ]_vars

(***************************************************************************)
(* C22: in every state where no draw gesture is active (redraws run within  *)
(* the step that causes them) the canvas buffer equals                      *)
(* history[historyIndex] pixel for pixel, whatever the viewport scale and    *)
(* offset; so after undo the buffer is the entry at the new index, and an   *)
(* export taken there writes exactly what is displayed.                     *)
(***************************************************************************)
C22_DisplayMatchesEntry ==
    (~isDrawing /\ history # <<>>) =>
        /\ canvas = Entry(history, historyIndex).image
        /\ tempCanvas(canvas, history, historyIndex) = canvas

\* after a stroke and an undo, with the view zoomed and panned: the buffer is
\* entry 0 again and differs from the stroke's entry
C22_Witness ==
    /\ ~isDrawing
    /\ Len(history) = 2
    /\ historyIndex = 0
    /\ Entry(history, 1).image # Entry(history, 0).image
    /\ canvas = Entry(history, 0).image
    /\ viewTransform.scale # ScaleUnit
    /\ viewTransform.offset.x # 0

(***************************************************************************)
(* C23: at most one self-rescheduling frame-callback chain is live at any   *)
(* time (every pending callback is the head of one chain), and a frame that *)
(* runs with no draw gesture active composites nothing and leaves no        *)
(* callback pending.                                                        *)
(***************************************************************************)
C23_OneFrameChain ==
    [][ /\ Len(frames') <= 1
        /\ (AnimationFrame /\ ~isDrawing) => canvas' = canvas /\ frames' = <<>>
      ]_vars

(***************************************************************************)
(* SpecLoads: the source changes while earlier loads are still pending, and *)
(* the pending loads complete in any order.  The sources differ in size, so *)
(* every load of another image resets the canvas.                           *)
(***************************************************************************)
LoadSources == {WhiteImage(MaxSrcW), PartImage(MaxSrcW - 1)}

InitLoads == Init /\ src = WhiteImage(MaxSrcW)

NextLoads ==
    \/ \E img \in LoadSources : img \notin loads /\ SrcChange(img) /\ Ghost("src")
    \/ \E img \in loads : ImageOnload(img) /\ FramesWithin(MaxFrames) /\ Ghost("load")
    \/ \E p \in Pointers : handleMouseDown(p) /\ FramesWithin(MaxFrames) /\ Ghost("down")
    \/ handleMouseUp /\ Ghost("up")
    \/ AnimationFrame /\ Ghost("frame")

SpecLoads == InitLoads /\ [][NextLoads]_vars

(***************************************************************************)
(* C24: when the source changes several times and the loads complete in any *)
(* order, then once all loads have completed the buffer and history entry 0 *)
(* hold the image of the most recently supplied source.                     *)
(***************************************************************************)
C24_LatestSourceWins ==
    [][ \A img \in loads :
            (LoadStep(img) /\ loads' = {}) =>
                /\ history' # <<>>
                /\ Entry(history', 0).image = src
                /\ canvas' = src
      ]_vars

====
